---- MODULE Spec2Model ----
(***************************************************************************)
(* lc1com.py: driver for the LC-1 wideband lambda controller.              *)
(*                                                                         *)
(* The model covers the receiving side of class lc1com: the reader thread  *)
(* (handlerx / onrxdata / onrxmsg / onmeasurement), the message            *)
(* interpreter (interpret_message), the value codec (floatvaluetobytes /   *)
(* bytestofloatvalue) and the caller threads of request().                 *)
(*                                                                         *)
(* Representation of values                                                *)
(*   - a byte is an integer 0..255, a bytearray a sequence of bytes;       *)
(*   - Python slices are 0-based and half open, TLA+ sequences 1-based;    *)
(*     Slice(s, a, b) is s[a:b];                                           *)
(*   - a float produced by bytestofloatvalue is val/10 for an integer val; *)
(*     it is represented by val (tenths).  The fields lambdavalue, o2value *)
(*     and heatervalue hold x/100 (+0.5) of such a float and are           *)
(*     represented in thousandths;                                         *)
(*   - None is <<>>, a present value v is <<v>>.                           *)
(***************************************************************************)
EXTENDS Integers, Sequences, FiniteSets, TLC

\* ------------------------------------------------------------------------
\* Protocol constants (lc1com.py:12-30)

LC1_STREAM_DATA_FRAME_START == 178      \* 0xB2
LC1_REQUEST_DATA_FRAME_START == 162     \* 0xA2
LC1_CMD_REQUEST_ID == 243               \* 0xF3
LC1_CMD_REQUEST_VERSION == 206          \* 0xCE
LC1_DEVICE_ID == 130                    \* 0x82

LC1_FRAME_START_CHARACTERS ==
    {LC1_STREAM_DATA_FRAME_START, LC1_REQUEST_DATA_FRAME_START}

LC1_MODE_HEATING == "heating"
LC1_MODE_O2MEASURE == "o2measure"
LC1_MODE_LAMBDAMEASURE == "lambdameasure"

None == <<>>

Some(v) == <<v>>

\* Python's s[a:b] for 0 <= a <= b (0-based, half open, clipped to len(s)).
Slice(s, a, b) ==
    LET hi == IF b < Len(s) THEN b ELSE Len(s)
    IN  IF a >= hi THEN <<>> ELSE SubSeq(s, a + 1, hi)

\* ------------------------------------------------------------------------
\* Value codec

\* The 14-bit range of the codec: 0x3F80 | 0x7F.
MaxTenths == 128 * 128 - 1

\* A fault a plausible slip in the mask of line 37 would make: 0x1F80.
floatvaluetobytes_narrowmask(tenths) ==
    << (tenths \div 128) % 64, tenths % 128 >>

\* floatvaluetobytes(fval) for fval = tenths/10: val = int(fval*10) is
\* tenths (for every tenths in 0..16383 the double product truncates to
\* tenths); lsb = val & 0x7f, msb = (val & 0x3F80) >> 7; returns (msb, lsb).
floatvaluetobytes(tenths) ==
    << (tenths \div 128) % 128, tenths % 128 >>

\* bytestofloatvalue raises IndexError when bs has fewer than two bytes
\* (ba[0], ba[1]).
bytestofloatvalue_raises(bs) == Len(bs) < 2

\* bytestofloatvalue(bs), in tenths: val = (ba[0] << 7) + ba[1]; val / 10.
bytestofloatvalue(bs) == bs[1] * 128 + bs[2]

\* ------------------------------------------------------------------------
\* Message generation (simulator side); values in tenths

\* generate_message(val1, val2, msg_type = 0xB2, device_id = 0x82)
generate_message(val1, val2) ==
    <<LC1_STREAM_DATA_FRAME_START, LC1_DEVICE_ID>>
    \o floatvaluetobytes(val1) \o floatvaluetobytes(val2)

\* int(heater_val * 100 * 10) for a heater value of h hundredths.  The
\* values that stepping by 0.05 reaches as 0.44999999999999996,
\* 0.49999999999999994 and 0.5499999999999999 truncate one tenth lower.
HeaterValTenths(h) ==
    IF h \in {45, 50, 55} THEN 10 * h - 1 ELSE 10 * h

\* generate_message_heater(heater_val): val1 = 1064.3, val2 = heater_val*100
generate_message_heater(h) ==
    generate_message(10643, HeaterValTenths(h))

\* generate_message_o2_lambda calls generate_message without val2, which has
\* no default: every call raises TypeError.
generate_message_o2_lambda_raises == TRUE

\* lc1simulator.ID and lc1simulator.VERSION (lines 276-277)
SIM_ID == <<162, 133, 1, 115, 17, 10, 76, 67, 49, 32, 5, 50>>

SIM_VERSION == <<162, 133, 1, 78, 76, 67, 45, 49, 95, 49, 0, 0>>

\* ------------------------------------------------------------------------
\* Message interpreter

\* interpret_message raises (IndexError out of bytestofloatvalue) on a
\* telemetry frame of 2..5 bytes.
interpret_message_raises(msg) ==
    /\ Len(msg) >= 2
    /\ msg[1] = LC1_STREAM_DATA_FRAME_START
    /\ \/ bytestofloatvalue_raises(Slice(msg, 2, 4))
       \/ bytestofloatvalue_raises(Slice(msg, 4, 6))

\* interpret_message(msg) where it does not raise: the message dict as
\* Some(record), or None.
interpret_message(msg) ==
    IF Len(msg) >= 2
    THEN IF msg[1] = LC1_STREAM_DATA_FRAME_START
         THEN Some([msg_type |-> msg[1], device_id |-> msg[2],
                    val1 |-> bytestofloatvalue(Slice(msg, 2, 4)),
                    val2 |-> bytestofloatvalue(Slice(msg, 4, 6)),
                    raw |-> msg])
         ELSE IF msg[1] = LC1_REQUEST_DATA_FRAME_START
         THEN Some([msg_type |-> msg[1], device_id |-> msg[2],
                    data |-> Slice(msg, 2, Len(msg)),
                    raw |-> msg])
         ELSE None
    ELSE None

\* ------------------------------------------------------------------------
\* Bounds and inputs

\* Longest stream of the exhaustive family of input streams.
MaxLen == 5

\* Calls of request() each thread makes once the constructor has returned.
MaxCalls == 1

\* The two bytes of the exhaustive family besides the device id: the start
\* markers.  Every stream over these three bytes up to MaxLen is an input.
StreamAlphabet ==
    {LC1_STREAM_DATA_FRAME_START, LC1_REQUEST_DATA_FRAME_START, LC1_DEVICE_ID}

ShortStreams == UNION {[1..k -> StreamAlphabet] : k \in 0..MaxLen}

\* B2 82 00 0A 00 14  B2 82 00 0A 00 1E: two back-to-back telemetry frames.
TwoFrames == <<178, 130, 0, 10, 0, 20, 178, 130, 0, 10, 0, 30>>

\* FF FF, one telemetry frame and the marker that terminates it.
NoisyStream == <<255, 255, 178, 130, 0, 10, 0, 20, 178>>

\* What a device sends in a session: two replies (to the id and version
\* requests of connect), the heater telemetry frame of
\* generate_message_heater (B2 82 53 13 01 73), a further reply and the
\* start of the next frame.
SessionStream ==
    <<162, 133, 1>> \o <<162, 133, 2>> \o <<178, 130, 83, 19, 1, 115>>
    \o <<162, 133, 3>> \o <<178>>

InputStreams ==
    ShortStreams \cup
    {TwoFrames, TwoFrames \o <<162>>, NoisyStream, SessionStream}

Threads == {"main", "aux"}

Services == {LC1_CMD_REQUEST_ID, LC1_CMD_REQUEST_VERSION}

\* The guards of the branches of onmeasurement are not in the source (the
\* text goes from the assignments of val1/val2 straight to the indented
\* first block, and an else follows the second block).  A call takes one of
\* the paths the blocks allow: the first block alone, the second alone, the
\* first then the second (both under one guard), or the else block.
Paths == {"heating", "o2measure", "heating_o2measure", "lambdameasure"}

\* ------------------------------------------------------------------------
\* State

VARIABLES
    stream,        \* the bytes the device sends over the life of the link
    rxpos,         \* how many of them handlerx has read
    nchunks,       \* number of onrxdata calls so far
    rxalive,       \* the reader thread has not died of an exception
    rxbuff,        \* self.rxbuff
    requests,      \* self.requests (queue.Queue, unbounded FIFO)
    status,        \* self.status
    o2value,       \* self.o2value
    lambdavalue,   \* self.lambdavalue
    heatervalue,   \* self.heatervalue
    pc,            \* per caller thread: "idle" or "waiting" (in requests.get)
    ret,           \* per caller thread: what its request() returned, None
                   \* from the start of its next call on
    connected,     \* requests of connect() that have returned (0..2)
    calls,         \* per thread: request() calls made after the constructor
    written,       \* bytes written to the transport by request, in order
    delivered,     \* history: frames passed to onrxmsg, in order
    measured,      \* history: <<val1, val2>> passed to onmeasurement
    reqmeta,       \* history, parallel to requests: when each was put
    nput,          \* history: number of requests.put so far
    wrote_at,      \* history, per thread: nput when it wrote its command
    retmeta,       \* history, per thread: reqmeta entry of what it got
    fval,          \* codec harness: the value to encode, in tenths
    encoded,       \* codec harness: floatvaluetobytes(fval), or None
    decoded,       \* codec harness: bytestofloatvalue(encoded), or None
    strpc,         \* __str__ caller: "idle", "have_status" or "done"
    strstat,       \* __str__: stat = self.get_status()
    strval,        \* __str__: val = self.get_heater() / get_o2value() / ...
    strstatver,    \* history: number of updates when stat was read
    strvalver,     \* history: number of updates when val was read
    simmode,       \* lc1simulator.simmode
    lc1mode,       \* lc1simulator.lc1mode ("unset": no such attribute yet)
    heater,        \* lc1simulator.heater, in hundredths
    lambda_value,  \* lc1simulator.lambda_value, in thousandths
    o2,            \* lc1simulator.o2, in ten-thousandths
    nextmsg,       \* simulate(): local nextmsg
    simpc,         \* simulate thread: "loop", "put" (in transmit) or "dead"
    manualcommandqueue,  \* lc1simulator.manualcommandqueue (maxsize 1)
    txqueue,       \* lc1simulator.txqueue
    currenttxmessage,    \* lc1simulator.currenttxmessage
    cmdin,         \* the command bytes the simulator receives
    cmdpos,        \* how many of them on_cmd has handled
    simrxpc,       \* simulator handlerx thread: "loop" or "put" (in transmit)
    serout,        \* messages handletx has written to the transport
    ticks,         \* history: iterations of simulate begun
    tickcmd,       \* history: manualcommandqueue at the start of the last tick
    transmitted    \* history: the messages passed to transmit, in call order

rxvars == <<stream, rxpos, nchunks, rxalive, rxbuff, status, o2value,
            lambdavalue, heatervalue, delivered, measured>>

queuevars == <<requests, reqmeta, nput>>

callervars == <<pc, ret, connected, calls, written, wrote_at, retmeta>>

codecvars == <<fval, encoded, decoded>>

strvars == <<strpc, strstat, strval, strstatver, strvalver>>

simvars == <<simmode, lc1mode, heater, lambda_value, o2, nextmsg, simpc,
             manualcommandqueue, txqueue, currenttxmessage, cmdin, cmdpos,
             simrxpc, serout, ticks, tickcmd, transmitted>>

vars == <<rxvars, queuevars, callervars, codecvars, strvars, simvars>>

\* ------------------------------------------------------------------------
\* Device-mode interpreter (onmeasurement), on the receiver state rs: a
\* record of the fields of self that the reader thread touches, the
\* histories, and raised (an exception is propagating).

\* with self.mutex: status = heating; lambdavalue = o2value = None;
\* heatervalue = val2/100.
HeatingBlock(rs, val1, val2) ==
    [rs EXCEPT !.status = LC1_MODE_HEATING,
               !.lambdavalue = None,
               !.o2value = None,
               !.heatervalue = Some(val2)]

\* with self.mutex: status = o2measure; lambdavalue = val1/100 + 0.5;
\* o2value = val2/100.
O2MeasureBlock(rs, val1, val2) ==
    [rs EXCEPT !.status = LC1_MODE_O2MEASURE,
               !.lambdavalue = Some(val1 + 500),
               !.o2value = Some(val2)]

\* else: with self.mutex: status = lambdameasure; lambdavalue, o2value as
\* above.
LambdaMeasureBlock(rs, val1, val2) ==
    [rs EXCEPT !.status = LC1_MODE_LAMBDAMEASURE,
               !.lambdavalue = Some(val1 + 500),
               !.o2value = Some(val2)]

onmeasurement(rs, msg_dct, path) ==
    LET val1 == msg_dct.val1
        val2 == msg_dct.val2
        r0 == [rs EXCEPT !.measured = Append(@, <<val1, val2>>)]
    IN  CASE path = "heating" -> HeatingBlock(r0, val1, val2)
          [] path = "o2measure" -> O2MeasureBlock(r0, val1, val2)
          [] path = "heating_o2measure" ->
                O2MeasureBlock(HeatingBlock(r0, val1, val2), val1, val2)
          [] OTHER -> LambdaMeasureBlock(r0, val1, val2)

\* self.requests.put(msg_dct); the history notes its ordinal and whether a
\* request() call was waiting at that moment.
requests_put(rs, msg_dct) ==
    [rs EXCEPT !.requests = Append(@, msg_dct),
               !.reqmeta = Append(@, [n |-> rs.nput + 1,
                                      pending |-> rs.pending]),
               !.nput = @ + 1]

\* onrxmsg(msg).  rs.paths holds the paths the coming onmeasurement calls
\* take.
onrxmsg(rs, msg) ==
    LET r0 == [rs EXCEPT !.delivered = Append(@, msg)]
    IN  IF interpret_message_raises(msg)
        THEN [r0 EXCEPT !.raised = TRUE]
        ELSE LET m == interpret_message(msg)
             IN  IF m = None
                 THEN r0
                 ELSE IF m[1].msg_type = LC1_STREAM_DATA_FRAME_START
                 THEN onmeasurement([r0 EXCEPT !.paths = Tail(@)], m[1],
                                    Head(r0.paths))
                 ELSE IF m[1].msg_type = LC1_REQUEST_DATA_FRAME_START
                 THEN requests_put(r0, m[1])
                 ELSE [r0 EXCEPT !.raised = TRUE]

\* ------------------------------------------------------------------------
\* Frame demultiplexer (onrxdata)

\* A fault: line 219 left out, so a frame starts where the buffer starts.
next_lastidx_stuck(lastidx, idx) == lastidx

\* lastidx = idx
next_lastidx(lastidx, idx) == idx

\* A fault: the tail is cut after the last marker instead of at it.
retained_aftermarker(buf, lastidx) == Slice(buf, lastidx + 1, Len(buf))

\* self.rxbuff = self.rxbuff[lastidx:]
retained(buf, lastidx) == Slice(buf, lastidx, Len(buf))

\* The for loop of onrxdata over enumerate(self.rxbuff), from index idx on
\* (idx and lastidx 0-based as in the source).  An exception out of onrxmsg
\* leaves the loop and the method: self.rxbuff stays the extended buffer.
RECURSIVE onrxdata_loop(_, _, _, _)
onrxdata_loop(buf, idx, lastidx, rs) ==
    IF idx >= Len(buf)
    THEN [rs EXCEPT !.rxbuff = retained(buf, lastidx)]
    ELSE IF buf[idx + 1] \in LC1_FRAME_START_CHARACTERS
    THEN LET rx_msg == Slice(buf, lastidx, idx)
             r1 == IF rx_msg # <<>> THEN onrxmsg(rs, rx_msg) ELSE rs
         IN  IF r1.raised
             THEN r1
             ELSE onrxdata_loop(buf, idx + 1, next_lastidx(lastidx, idx), r1)
    ELSE onrxdata_loop(buf, idx + 1, lastidx, rs)

\* onrxdata(data): self.rxbuff.extend(data), then the loop from lastidx = 0.
onrxdata(rs, data) ==
    LET buf == rs.rxbuff \o data
    IN  onrxdata_loop(buf, 0, 0, [rs EXCEPT !.rxbuff = buf])

\* ------------------------------------------------------------------------
\* Init: the object as __init__ leaves it at line 126 (fields set, reader
\* thread started), connect() not yet called.

InitCodecIdle ==
    /\ fval = 0
    /\ encoded = None
    /\ decoded = None

InitDriver ==
    /\ rxpos = 0
    /\ nchunks = 0
    /\ rxalive = TRUE
    /\ rxbuff = <<>>
    /\ requests = <<>>
    /\ status = "init"
    /\ o2value = None
    /\ lambdavalue = None
    /\ heatervalue = None
    /\ pc = [t \in Threads |-> "idle"]
    /\ ret = [t \in Threads |-> None]
    /\ connected = 0
    /\ calls = [t \in Threads |-> 0]
    /\ written = <<>>
    /\ delivered = <<>>
    /\ measured = <<>>
    /\ reqmeta = <<>>
    /\ nput = 0
    /\ wrote_at = [t \in Threads |-> 0]
    /\ retmeta = [t \in Threads |-> None]

\* No __str__ call has begun.
InitStatusReader ==
    /\ strpc = "idle"
    /\ strstat = "init"
    /\ strval = None
    /\ strstatver = 0
    /\ strvalver = 0

\* lc1simulator.__init__ (lines 270-295): the fields it sets.  It never
\* assigns self.lc1mode.  heater = 0.0, lambda_value = 1.0, o2 = 0.2094,
\* currenttxmessage = B2 82 53 13 01 73.  The simulate thread has run lines
\* 377-378 (simmode = 'auto'; nextmsg = generate_message_heater(heater)).
\* A variant in which __init__ would set self.lc1mode = 'heating'.
lc1mode_after_init_heating == "heating"

\* self.lc1mode as __init__ leaves it: never assigned.
lc1mode_after_init == "unset"

InitSimObject ==
    /\ simmode = "auto"
    /\ lc1mode = lc1mode_after_init
    /\ heater = 0
    /\ lambda_value = 1000
    /\ o2 = 2094
    /\ nextmsg = generate_message_heater(0)
    /\ simpc = "loop"
    /\ manualcommandqueue = <<>>
    /\ txqueue = <<>>
    /\ currenttxmessage = <<178, 130, 83, 19, 1, 115>>
    /\ cmdpos = 0
    /\ simrxpc = "loop"
    /\ serout = <<>>
    /\ ticks = 0
    /\ tickcmd = <<>>
    /\ transmitted = <<>>

Init ==
    /\ stream \in InputStreams
    /\ InitDriver
    /\ InitCodecIdle
    /\ InitStatusReader
    /\ InitSimObject
    /\ cmdin = <<>>

\* ------------------------------------------------------------------------
\* Reader thread

\* The receiver state the reader thread starts an onrxdata call with.
RxState(paths) ==
    [rxbuff |-> rxbuff, requests |-> requests, status |-> status,
     o2value |-> o2value, lambdavalue |-> lambdavalue,
     heatervalue |-> heatervalue, raised |-> FALSE,
     delivered |-> delivered, measured |-> measured,
     reqmeta |-> reqmeta, nput |-> nput,
     pending |-> (\E t \in Threads : pc[t] = "waiting"),
     paths |-> paths]

\* The number of onmeasurement calls onrxdata(indata) makes in the current
\* state (which path each takes does not change how many there are).
NumMeasurements(indata) ==
    LET m == Len(rxbuff) + Len(indata)
        rs == onrxdata(RxState([i \in 1..m |-> "lambdameasure"]), indata)
    IN  Len(rs.measured) - Len(measured)

\* One iteration of handlerx that reads n > 0 bytes: indata =
\* self.ser.read(self.ser.inWaiting()); self.onrxdata(indata).  An exception
\* out of onrxdata ends the thread.
handlerx(n) ==
    /\ rxalive
    /\ n \in 1..(Len(stream) - rxpos)
    /\ LET indata == SubSeq(stream, rxpos + 1, rxpos + n)
           k == NumMeasurements(indata)
       IN  \E paths \in [1..k -> Paths] :
             LET rs == onrxdata(RxState(paths), indata)
             IN  /\ rxbuff' = rs.rxbuff
                 /\ requests' = rs.requests
                 /\ status' = rs.status
                 /\ o2value' = rs.o2value
                 /\ lambdavalue' = rs.lambdavalue
                 /\ heatervalue' = rs.heatervalue
                 /\ delivered' = rs.delivered
                 /\ measured' = rs.measured
                 /\ reqmeta' = rs.reqmeta
                 /\ nput' = rs.nput
                 /\ rxalive' = ~rs.raised
    /\ rxpos' = rxpos + n
    /\ nchunks' = nchunks + 1
    /\ UNCHANGED <<stream, callervars, codecvars, strvars, simvars>>

\* ------------------------------------------------------------------------
\* Caller threads

\* request(service) up to the blocking get: msg = bytearray([service]);
\* self.ser.write(msg).
request_write(t, service) ==
    /\ pc[t] = "idle"
    /\ pc' = [pc EXCEPT ![t] = "waiting"]
    /\ written' = Append(written, service)
    /\ wrote_at' = [wrote_at EXCEPT ![t] = nput]
    /\ ret' = [ret EXCEPT ![t] = None]
    /\ retmeta' = [retmeta EXCEPT ![t] = None]
    /\ UNCHANGED <<rxvars, queuevars, connected, codecvars, strvars, simvars>>

\* connect(): dev_id = self.requestid()["data"], called by __init__.
connect_requestid ==
    /\ connected = 0
    /\ request_write("main", LC1_CMD_REQUEST_ID)
    /\ UNCHANGED calls

\* connect(): dev_version = self.requestversion()["data"].
connect_requestversion ==
    /\ connected = 1
    /\ request_write("main", LC1_CMD_REQUEST_VERSION)
    /\ UNCHANGED calls

\* requestid() / requestversion() called by thread t on the constructed
\* object.
request_call(t, service) ==
    /\ connected = 2
    /\ calls[t] < MaxCalls
    /\ request_write(t, service)
    /\ calls' = [calls EXCEPT ![t] = @ + 1]

\* return self.requests.get(): blocks until the queue holds an item.
request_return(t) ==
    /\ pc[t] = "waiting"
    /\ requests # <<>>
    /\ ret' = [ret EXCEPT ![t] = Some(Head(requests))]
    /\ retmeta' = [retmeta EXCEPT ![t] = Some(Head(reqmeta))]
    /\ requests' = Tail(requests)
    /\ reqmeta' = Tail(reqmeta)
    /\ pc' = [pc EXCEPT ![t] = "idle"]
    /\ connected' = IF connected < 2 THEN connected + 1 ELSE connected
    /\ UNCHANGED <<rxvars, nput, calls, written, wrote_at, codecvars, strvars,
                 simvars>>

Next ==
    \/ \E n \in 1..Len(stream) : handlerx(n)
    \/ connect_requestid
    \/ connect_requestversion
    \/ \E t \in Threads, service \in Services : request_call(t, service)
    \/ \E t \in Threads : request_return(t)

Spec == Init /\ [][Next]_vars

\* The scheduler runs the reader thread as long as it lives, and wakes a
\* thread blocked in requests.get() when the queue holds an item.
FairSpec ==
    /\ Spec
    /\ WF_vars(\E n \in 1..Len(stream) : handlerx(n))
    /\ \A t \in Threads : WF_vars(request_return(t))

\* ------------------------------------------------------------------------
\* Codec harness: encode a value, then decode the bytes.

Encode ==
    /\ encoded = None
    /\ encoded' = Some(floatvaluetobytes(fval))
    /\ UNCHANGED <<rxvars, queuevars, callervars, fval, decoded, strvars,
                 simvars>>

Decode ==
    /\ encoded # None
    /\ decoded = None
    /\ decoded' = Some(bytestofloatvalue(encoded[1]))
    /\ UNCHANGED <<rxvars, queuevars, callervars, fval, encoded, strvars,
                 simvars>>

InitCodec ==
    /\ stream = <<>>
    /\ InitDriver
    /\ fval \in 0..MaxTenths
    /\ encoded = None
    /\ decoded = None
    /\ InitStatusReader
    /\ InitSimObject
    /\ cmdin = <<>>

NextCodec == Encode \/ Decode

SpecCodec == InitCodec /\ [][NextCodec]_vars

\* ------------------------------------------------------------------------
\* A status reader: a thread that calls __str__ (lines 174-187) while the
\* reader thread runs.  __str__ takes no lock.

\* The number of updates onmeasurement has made so far.
UpdateCount == Len(measured)

\* stat = self.get_status(); for a status that is none of the three modes
\* __str__ returns "" without reading a value.
str_get_status ==
    /\ strpc \in {"idle", "done"}
    /\ strstat' = status
    /\ strstatver' = UpdateCount
    /\ strpc' = IF status \in {LC1_MODE_HEATING, LC1_MODE_O2MEASURE,
                               LC1_MODE_LAMBDAMEASURE}
                THEN "have_status" ELSE "idle"
    /\ UNCHANGED <<rxvars, queuevars, callervars, codecvars, strval,
                   strvalver, simvars>>

\* val = self.get_heater() / self.get_o2value() / self.get_lambdavalue(),
\* by the stat read before.
str_get_value ==
    /\ strpc = "have_status"
    /\ strval' = CASE strstat = LC1_MODE_HEATING -> heatervalue
                   [] strstat = LC1_MODE_O2MEASURE -> o2value
                   [] OTHER -> lambdavalue
    /\ strvalver' = UpdateCount
    /\ strpc' = "done"
    /\ UNCHANGED <<rxvars, queuevars, callervars, codecvars, strstat,
                   strstatver, simvars>>

\* Streams that carry complete telemetry frames.
TelemetryStreams == {TwoFrames \o <<162>>, NoisyStream, SessionStream}

InitStatus ==
    /\ stream \in TelemetryStreams
    /\ InitDriver
    /\ InitCodecIdle
    /\ InitStatusReader
    /\ InitSimObject
    /\ cmdin = <<>>

NextStatus ==
    \/ \E n \in 1..Len(stream) : handlerx(n)
    \/ str_get_status
    \/ str_get_value

SpecStatus == InitStatus /\ [][NextStatus]_vars

\* ------------------------------------------------------------------------
\* Simulator (class lc1simulator)

\* Command bytes a client sends in the longest command stream.
MaxCmds == 3

\* The command bytes: the two requests and a byte that is no command.
CmdAlphabet == {LC1_CMD_REQUEST_ID, LC1_CMD_REQUEST_VERSION, 0}

CmdStreams == UNION {[1..k -> CmdAlphabet] : k \in 0..MaxCmds}

\* Values passed to set_manual_heater (hundredths: 0.42) and to
\* set_manual_o2 (ten-thousandths: 0.1).
ManualHeaterValues == {42}

ManualO2Values == {1000}

SimThreads == {"sim", "rx"}

\* The fields simulate() works on.
SimState ==
    [simmode |-> simmode, lc1mode |-> lc1mode, heater |-> heater,
     lambda_value |-> lambda_value, o2 |-> o2, nextmsg |-> nextmsg,
     mq |-> manualcommandqueue, raised |-> FALSE]

\* The truth value of self.manualcommandqueue.empty in line 380: the bound
\* method itself (it is not called), which is always true.
manualcommandqueue_empty_truth == TRUE

\* Lines 380-386: if not self.manualcommandqueue.empty: take the command
\* from the queue and pin heater or o2.
ManualBranch(sm) ==
    IF ~manualcommandqueue_empty_truth /\ sm.mq # <<>>
    THEN LET cmd == Head(sm.mq)
             s1 == [sm EXCEPT !.simmode = cmd[1], !.lc1mode = cmd[2],
                              !.mq = Tail(@)]
         IN  IF cmd[2] = "heating" THEN [s1 EXCEPT !.heater = cmd[3]]
             ELSE IF cmd[2] = "o2measure" THEN [s1 EXCEPT !.o2 = cmd[3]]
             ELSE s1
    ELSE sm

\* nextmsg = generate_message_o2_lambda(...): raises.
SetO2LambdaMessage(sm) ==
    IF generate_message_o2_lambda_raises
    THEN [sm EXCEPT !.raised = TRUE]
    ELSE sm

\* Lines 388-420, self.simmode == 'auto'.  Reading self.lc1mode while it has
\* never been assigned raises AttributeError.  The guard of the o2measure
\* branch (between lines 405 and 406) is not in the source: g says which
\* way it goes.
AutoBranch(sm, g) ==
    IF sm.simmode = "init"
    THEN [sm EXCEPT !.heater = 0, !.o2 = 0, !.lc1mode = "heating",
                    !.nextmsg = generate_message_heater(0)]
    ELSE IF sm.lc1mode = "unset"
    THEN [sm EXCEPT !.raised = TRUE]
    ELSE IF sm.lc1mode = "heating"
    THEN IF sm.heater >= 100
         THEN [sm EXCEPT !.lc1mode = "o2measure"]
         ELSE [sm EXCEPT !.heater = @ + 5,
                         !.nextmsg = generate_message_heater(sm.heater + 5)]
    ELSE IF sm.lc1mode = "o2measure"
    THEN IF g
         THEN SetO2LambdaMessage([sm EXCEPT !.lc1mode = "lambdameasure",
                                            !.lambda_value = 1500])
         ELSE SetO2LambdaMessage([sm EXCEPT !.o2 = @ - 10,
                                            !.lambda_value = 9618])
    ELSE IF sm.lc1mode = "lambdameasure"
    THEN LET s1 == [sm EXCEPT !.lambda_value = @ - 10]
             s2 == IF s1.lambda_value < 500
                   THEN [s1 EXCEPT !.lc1mode = "o2measure", !.o2 = 2094]
                   ELSE s1
         IN  SetO2LambdaMessage(s2)
    ELSE sm

\* Lines 422-428, self.simmode == 'manual'.
ManualModeBranch(sm) ==
    IF sm.lc1mode = "unset"
    THEN [sm EXCEPT !.raised = TRUE]
    ELSE IF sm.lc1mode = "heating"
    THEN [sm EXCEPT !.nextmsg = generate_message_heater(sm.heater)]
    ELSE IF sm.lc1mode = "o2measure"
    THEN SetO2LambdaMessage(sm)
    ELSE sm

\* One iteration of the while loop of simulate() up to the call of transmit.
TickBody(sm, g) ==
    LET s1 == ManualBranch(sm)
    IN  IF s1.simmode = "auto" THEN AutoBranch(s1, g)
        ELSE IF s1.simmode = "manual" THEN ManualModeBranch(s1)
        ELSE s1

\* transmit(msg), first statement: self.currenttxmessage = msg.  The put of
\* the second statement is a step of its own (transmit_put).
transmit_set(th, msg) ==
    /\ currenttxmessage' = msg
    /\ transmitted' = Append(transmitted, [by |-> th, msg |-> msg])

\* One iteration of simulate(): lines 380-430 up to self.currenttxmessage =
\* msg inside transmit.  An exception ends the thread.
simulate_tick ==
    /\ simpc = "loop"
    /\ \E g \in BOOLEAN :
         LET sm == TickBody(SimState, g)
         IN  /\ simmode' = sm.simmode
             /\ lc1mode' = sm.lc1mode
             /\ heater' = sm.heater
             /\ lambda_value' = sm.lambda_value
             /\ o2' = sm.o2
             /\ nextmsg' = sm.nextmsg
             /\ manualcommandqueue' = sm.mq
             /\ IF sm.raised
                THEN /\ simpc' = "dead"
                     /\ UNCHANGED <<currenttxmessage, transmitted>>
                ELSE /\ simpc' = "put"
                     /\ transmit_set("sim", sm.nextmsg)
    /\ ticks' = ticks + 1
    /\ tickcmd' = manualcommandqueue
    /\ UNCHANGED <<rxvars, queuevars, callervars, codecvars, strvars,
                   txqueue, cmdin, cmdpos, simrxpc, serout>>

\* transmit, second statement, by thread th:
\* self.txqueue.put(self.currenttxmessage); then back to the thread's loop
\* (simulate sleeps 0.1 s first).
transmit_put(th) ==
    /\ IF th = "sim" THEN simpc = "put" ELSE simrxpc = "put"
    /\ txqueue' = Append(txqueue, currenttxmessage)
    /\ IF th = "sim"
       THEN simpc' = "loop" /\ UNCHANGED simrxpc
       ELSE simrxpc' = "loop" /\ UNCHANGED simpc
    /\ UNCHANGED <<rxvars, queuevars, callervars, codecvars, strvars,
                   simmode, lc1mode, heater, lambda_value, o2, nextmsg,
                   manualcommandqueue, currenttxmessage, cmdin, cmdpos,
                   serout, ticks, tickcmd, transmitted>>

\* on_cmd: what is transmitted for command byte c (write_id, write_version,
\* or nothing but a log line).
reply_for(c) ==
    IF c = LC1_CMD_REQUEST_ID THEN Some(SIM_ID)
    ELSE IF c = LC1_CMD_REQUEST_VERSION THEN Some(SIM_VERSION)
    ELSE None

\* The simulator's handlerx and on_cmd, one command byte at a time (on_cmd
\* loops over the bytes of a chunk and keeps nothing between them, so the
\* chunks of ser.read do not matter): up to self.currenttxmessage = msg
\* inside transmit for a recognised byte.
on_cmd_step ==
    /\ simrxpc = "loop"
    /\ cmdpos < Len(cmdin)
    /\ cmdpos' = cmdpos + 1
    /\ LET reply == reply_for(cmdin[cmdpos + 1])
       IN  IF reply # None
           THEN /\ transmit_set("rx", reply[1])
                /\ simrxpc' = "put"
           ELSE UNCHANGED <<currenttxmessage, transmitted, simrxpc>>
    /\ UNCHANGED <<rxvars, queuevars, callervars, codecvars, strvars,
                   simmode, lc1mode, heater, lambda_value, o2, nextmsg, simpc,
                   manualcommandqueue, txqueue, cmdin, serout, ticks,
                   tickcmd>>

\* handletx: nexttxmessage = self.txqueue.get(); self.ser.write(it).
handletx ==
    /\ txqueue # <<>>
    /\ serout' = Append(serout, Head(txqueue))
    /\ txqueue' = Tail(txqueue)
    /\ UNCHANGED <<rxvars, queuevars, callervars, codecvars, strvars,
                   simmode, lc1mode, heater, lambda_value, o2, nextmsg, simpc,
                   manualcommandqueue, currenttxmessage, cmdin, cmdpos,
                   simrxpc, ticks, tickcmd, transmitted>>

\* self.manualcommandqueue.put(cmd): the queue has maxsize 1, put blocks
\* while it is full.
manualcommandqueue_put(cmd) ==
    /\ Len(manualcommandqueue) < 1
    /\ manualcommandqueue' = Append(manualcommandqueue, cmd)
    /\ UNCHANGED <<rxvars, queuevars, callervars, codecvars, strvars,
                   simmode, lc1mode, heater, lambda_value, o2, nextmsg, simpc,
                   txqueue, currenttxmessage, cmdin, cmdpos, simrxpc, serout,
                   ticks, tickcmd, transmitted>>

set_manual_heater(val) == manualcommandqueue_put(<<"manual", "heating", val>>)

set_manual_o2(val) == manualcommandqueue_put(<<"manual", "o2measure", val>>)

set_auto == manualcommandqueue_put(<<"auto", "init", 0>>)

InitSim ==
    /\ stream = <<>>
    /\ InitDriver
    /\ InitCodecIdle
    /\ InitStatusReader
    /\ InitSimObject
    /\ cmdin \in CmdStreams

NextSim ==
    \/ simulate_tick
    \/ \E th \in SimThreads : transmit_put(th)
    \/ on_cmd_step
    \/ handletx
    \/ \E val \in ManualHeaterValues : set_manual_heater(val)
    \/ \E val \in ManualO2Values : set_manual_o2(val)
    \/ set_auto

SpecSim == InitSim /\ [][NextSim]_vars

\* The scheduler runs every thread of the simulator that can take a step.
FairSim ==
    /\ SpecSim
    /\ WF_vars(simulate_tick)
    /\ WF_vars(\E th \in SimThreads : transmit_put(th))
    /\ WF_vars(on_cmd_step)
    /\ WF_vars(handletx)

\* ------------------------------------------------------------------------
\* Properties

\* The bytes handlerx has read so far.
received == SubSeq(stream, 1, rxpos)

MarkerPositions(s) ==
    {i \in 1..Len(s) : s[i] \in LC1_FRAME_START_CHARACTERS}

\* Position of the first / last marker of s, 0 when it has none.
FirstMarker(s) ==
    IF MarkerPositions(s) = {} THEN 0
    ELSE CHOOSE i \in MarkerPositions(s) : \A j \in MarkerPositions(s) : i <= j

LastMarker(s) ==
    IF MarkerPositions(s) = {} THEN 0
    ELSE CHOOSE i \in MarkerPositions(s) : \A j \in MarkerPositions(s) : i >= j

\* Position of the first marker of s after position i, 0 when there is none.
MarkerAfter(s, i) ==
    LET later == {j \in MarkerPositions(s) : j > i}
    IN  IF later = {} THEN 0
        ELSE CHOOSE j \in later : \A k \in later : j <= k

RECURSIVE TotalLen(_, _)
TotalLen(frames, i) ==
    IF i = 0 THEN 0 ELSE Len(frames[i]) + TotalLen(frames, i - 1)

\* C1: at most one request is outstanding at any time: no two threads are
\* between writing their command byte and the return of request().
C1_AtMostOneOutstanding ==
    Cardinality({t \in Threads : pc[t] = "waiting"}) <= 1

\* C2: a reply dispatched while no request call was pending is never
\* returned by a request call: what request() returned to a thread was put
\* on the queue while a call was pending, and after that thread wrote its
\* command byte.
C2_ReturnedReplyIsFresh ==
    \A t \in Threads :
        retmeta[t] # None =>
            /\ retmeta[t][1].pending
            /\ retmeta[t][1].n > wrote_at[t]

\* C3: every request call eventually returns (with a reply or a timeout):
\* a thread waiting in request() does not wait forever.
C3_RequestEventuallyReturns ==
    \A t \in Threads : (pc[t] = "waiting") ~> (pc[t] = "idle")

\* C4: every frame passed to onrxmsg is followed, in the bytes received, by
\* a start marker; and once a marker has been received, rxbuff is the bytes
\* received from the last marker on: it begins with that marker and holds
\* no other.
C4_TailHeldBack ==
    /\ \A i \in 1..Len(delivered) :
          LET e == TotalLen(delivered, i)
          IN  /\ e < Len(received)
              /\ received[e + 1] \in LC1_FRAME_START_CHARACTERS
              /\ delivered[i] = SubSeq(received, e - Len(delivered[i]) + 1, e)
    /\ LastMarker(received) # 0 =>
          /\ rxbuff = SubSeq(received, LastMarker(received), Len(received))
          /\ MarkerPositions(rxbuff) = {1}

\* The frames dispatched and the buffer retained when the bytes received are
\* fed to a fresh demultiplexer in one onrxdata call.
WholeFeed ==
    LET fresh == [rxbuff |-> <<>>, requests |-> <<>>, status |-> "init",
                  o2value |-> None, lambdavalue |-> None,
                  heatervalue |-> None, raised |-> FALSE,
                  delivered |-> <<>>, measured |-> <<>>,
                  reqmeta |-> <<>>, nput |-> 0, pending |-> FALSE,
                  paths |-> [i \in 1..Len(received) |-> "lambdameasure"]]
    IN  onrxdata(fresh, received)

\* C5: however the bytes received were split into chunks, the frames
\* dispatched and the retained rxbuff are those of feeding them in one call.
C5_ChunkIndependent ==
    /\ delivered = WholeFeed.delivered
    /\ rxbuff = WholeFeed.rxbuff

\* C6 as stated: the twelve bytes of TwoFrames, fed in two chunks, yield
\* exactly two telemetry frames, (1.0, 2.0) then (1.0, 3.0).
C6_TwoFramesYieldTwo ==
    (received = TwoFrames /\ nchunks = 2) =>
        measured = << <<10, 20>>, <<10, 30>> >>

\* C6 amended: the twelve bytes of TwoFrames, fed in two chunks split at any
\* position, yield exactly one telemetry frame, (1.0, 2.0); the six bytes of
\* the second frame are held back in rxbuff, and (1.0, 3.0) is delivered
\* once a further start marker has been received.
C6_TwoFramesYieldOne ==
    /\ (received = TwoFrames /\ nchunks = 2) =>
          /\ measured = << <<10, 20>> >>
          /\ delivered = << SubSeq(TwoFrames, 1, 6) >>
          /\ rxbuff = SubSeq(TwoFrames, 7, 12)
    /\ (received = TwoFrames \o <<162>>) =>
          /\ measured = << <<10, 20>>, <<10, 30>> >>
          /\ rxbuff = <<162>>

C6_Witness ==
    /\ received = TwoFrames
    /\ nchunks = 2
    /\ measured = << <<10, 20>> >>
    /\ rxbuff = SubSeq(TwoFrames, 7, 12)

\* C7: the bytes received before the first start marker produce no telemetry
\* update and no reply: they are passed on as one segment that the
\* interpreter drops; and the first frame after them is passed to onrxmsg
\* with exactly its own bytes once the marker that ends it has arrived.
C7_LeadingNoiseDiscarded ==
    LET fm == FirstMarker(received)
        sm == MarkerAfter(received, fm)
    IN  /\ (fm = 0) =>
              /\ delivered = <<>>
              /\ measured = <<>>
              /\ nput = 0
              /\ status = "init"
        /\ (fm > 1) =>
              /\ delivered # <<>>
              /\ delivered[1] = SubSeq(received, 1, fm - 1)
              /\ ~interpret_message_raises(delivered[1])
              /\ interpret_message(delivered[1]) = None
              /\ Len(delivered) = 1 =>
                    (measured = <<>> /\ nput = 0 /\ status = "init")
              /\ (sm # 0) =>
                    /\ Len(delivered) >= 2
                    /\ delivered[2] = SubSeq(received, fm, sm - 1)

C7_Witness ==
    /\ stream = NoisyStream
    /\ rxpos = Len(NoisyStream)
    /\ nchunks >= 2
    /\ delivered = << <<255, 255>>, <<178, 130, 0, 10, 0, 20>> >>
    /\ measured = << <<10, 20>> >>

IsTelemetryFrame(f) ==
    Len(f) >= 6 /\ f[1] = LC1_STREAM_DATA_FRAME_START

IsReplyFrame(f) ==
    Len(f) >= 2 /\ f[1] = LC1_REQUEST_DATA_FRAME_START

\* C8: no frame makes onrxmsg fail: the reader thread lives on, and only the
\* well-formed frames have had an effect (a telemetry frame of at least six
\* bytes one measurement, a reply frame of at least two bytes one queued
\* reply).
C8_InterpreterNeverFails ==
    /\ rxalive
    /\ Len(measured) =
          Cardinality({i \in 1..Len(delivered) : IsTelemetryFrame(delivered[i])})
    /\ nput =
          Cardinality({i \in 1..Len(delivered) : IsReplyFrame(delivered[i])})

\* C9: for every n in 0..16383, decoding the encoding of n/10 gives n/10
\* again, and both encoded bytes are in 0..0x7F.
C9_CodecRoundTrip ==
    /\ encoded # None =>
          (encoded[1][1] \in 0..127 /\ encoded[1][2] \in 0..127)
    /\ decoded # None => decoded[1] = fval

C9_Witness ==
    /\ fval = MaxTenths
    /\ encoded = Some(<<127, 127>>)
    /\ decoded = Some(MaxTenths)

\* The heater sentinel 1064.3 of generate_message_heater, in tenths
\* (bytes 0x53 0x13).
HeaterSentinel == bytestofloatvalue(<<83, 19>>)

\* C10: after a telemetry pair, status is Heating with heatervalue =
\* value2/100 exactly when value1 is the heater sentinel, and otherwise
\* LambdaMeasure with lambdavalue = value1/100 + 0.5 and o2value =
\* value2/100; status is never O2Measure.
C10_Classification ==
    /\ status # LC1_MODE_O2MEASURE
    /\ measured # <<>> =>
          LET val1 == measured[Len(measured)][1]
              val2 == measured[Len(measured)][2]
          IN  IF val1 = HeaterSentinel
              THEN /\ status = LC1_MODE_HEATING
                   /\ heatervalue = Some(val2)
              ELSE /\ status = LC1_MODE_LAMBDAMEASURE
                   /\ lambdavalue = Some(val1 + 500)
                   /\ o2value = Some(val2)

\* C11: the fields that do not belong to the current mode are cleared:
\* status LambdaMeasure goes with heatervalue None, status Heating with
\* lambdavalue and o2value None.
C11_OtherFieldsCleared ==
    /\ status = LC1_MODE_LAMBDAMEASURE => heatervalue = None
    /\ status = LC1_MODE_HEATING => (lambdavalue = None /\ o2value = None)

\* C12: a status reader always sees a consistent snapshot: the value __str__
\* reads for the status it read comes from the same update, and is never
\* None.
C12_ConsistentSnapshot ==
    strpc = "done" =>
        /\ strval # None
        /\ strvalver = strstatver

\* ------------------------------------------------------------------------
\* Simulator properties

\* The messages thread th has passed to transmit, in order.
TransmittedBy(th) ==
    LET RECURSIVE pick(_)
        pick(i) ==
            IF i > Len(transmitted) THEN <<>>
            ELSE IF transmitted[i].by = th
                 THEN <<transmitted[i].msg>> \o pick(i + 1)
                 ELSE pick(i + 1)
    IN  pick(1)

\* C13: a tick that starts with the command of set_manual_heater(v) in the
\* manual command queue leaves simmode = manual and heater = v, and
\* passes to transmit a heater telemetry frame whose decoded value2 is
\* v * 100 (420 tenths for v = 0.42).
C13_ManualOverride ==
    \A v \in ManualHeaterValues :
        (ticks >= 1 /\ tickcmd = << <<"manual", "heating", v>> >>) =>
            /\ simmode = "manual"
            /\ heater = v
            /\ simpc # "dead"
            /\ TransmittedBy("sim") # <<>>
            /\ LET msgs == TransmittedBy("sim")
                   msg == msgs[Len(msgs)]
               IN  /\ msg = generate_message_heater(v)
                   /\ interpret_message(msg)[1].val2 = 10 * v

\* C14: in auto mode heater never decreases, a tick in phase heating below
\* 1.0 adds one step of 0.05, the phase is o2measure only with
\* heater >= 1.0, the measurement phases never go back to heating, and the
\* transition from heating to o2measure does happen.
C14_HeatingReachesO2Once ==
    /\ [][heater' >= heater]_vars
    /\ [][(ticks' = ticks + 1 /\ lc1mode = "heating" /\ heater < 100)
            => heater' = heater + 5]_vars
    /\ [](lc1mode = "o2measure" => heater >= 100)
    /\ [][(lc1mode \in {"o2measure", "lambdameasure"})
            => lc1mode' # "heating"]_vars
    /\ <>(lc1mode = "o2measure")

\* C15: a tick in phase lambdameasure lowers lambda_value by one step
\* (0.01); the phase goes back from lambdameasure to o2measure only with
\* lambda_value below 0.5 and o2 reset to 0.2094; and that return
\* eventually happens.
C15_LambdaDecaysAndResets ==
    /\ [][(ticks' = ticks + 1 /\ lc1mode = "lambdameasure")
            => lambda_value' = lambda_value - 10]_vars
    /\ [][(lc1mode = "lambdameasure" /\ lc1mode' = "o2measure")
            => (lambda_value' < 500 /\ o2' = 2094)]_vars
    /\ <>(lc1mode = "o2measure" /\ lambda_value < 500 /\ o2 = 2094)

\* C16: the simulator started in auto mode enters heating (with heater and
\* o2 reset to 0), never re-enters heating from a measurement phase, and
\* visits o2measure and lambdameasure again and again.
C16_PhaseCycle ==
    /\ <>(lc1mode = "heating")
    /\ [][(lc1mode # "heating" /\ lc1mode' = "heating")
            => (lc1mode = "unset" /\ heater' = 0 /\ o2' = 0)]_vars
    /\ []<>(lc1mode = "o2measure")
    /\ []<>(lc1mode = "lambdameasure")

\* C17: once set_auto() has put its command in the manual command queue,
\* the simulator takes it, is in auto mode and re-enters Init: heater and o2
\* are 0 and the phase is heating.
C17_SetAutoReentersInit ==
    (manualcommandqueue = << <<"auto", "init", 0>> >>)
        ~> (/\ manualcommandqueue = <<>>
            /\ simmode = "auto"
            /\ lc1mode = "heating"
            /\ heater = 0
            /\ o2 = 0)

\* C18: no iteration of simulate ends in an exception, and every iteration
\* has passed exactly one six-byte telemetry frame (0xB2, device id, two
\* encoded values) to transmit.
C18_EveryTickTransmits ==
    /\ simpc # "dead"
    /\ Len(TransmittedBy("sim")) = ticks
    /\ \A i \in 1..Len(TransmittedBy("sim")) :
         LET msg == TransmittedBy("sim")[i]
         IN  /\ Len(msg) = 6
             /\ msg[1] = LC1_STREAM_DATA_FRAME_START
             /\ msg[2] = LC1_DEVICE_ID

\* The replies due for the first k command bytes, in command order.
RECURSIVE ExpectedReplies(_)
ExpectedReplies(k) ==
    IF k = 0 THEN <<>>
    ELSE ExpectedReplies(k - 1) \o reply_for(cmdin[k])

\* The calls of transmit that have set currenttxmessage and not yet put it.
PutsInFlight ==
    (IF simpc = "put" THEN 1 ELSE 0) + (IF simrxpc = "put" THEN 1 ELSE 0)

C20_ReplyReturnedWithoutFurtherBytes ==
    \A t \in Threads :
        (/\ pc[t] = "waiting"
         /\ rxpos = 0
         /\ requests = <<>>
         /\ IsReplyFrame(stream)
         /\ Len(stream) >= 3
         /\ MarkerPositions(stream) = {1})
        ~> (/\ pc[t] = "idle"
            /\ ret[t] # None
            /\ ret[t][1].data = Slice(stream, 2, Len(stream)))

====
